---------------------------- MODULE Spec2Model ----------------------------
(***************************************************************************)
(* A model of asyncfsm's record data model (src/src/record.rs): the Value  *)
(* union, the DataRecord container with its merge operations, the          *)
(* positional comparator compare_sets, the serde wire form that the        *)
(* derive attributes of DataRecord and Value produce, and the Parse        *)
(* command of the textfsm binary (src/src/bin/textfsm.rs).                 *)
(*                                                                         *)
(* Encoding.  An Option<T> is a sequence of length 0 (None) or 1 (Some).   *)
(* A Value is [tag, items]: Single(s) has items = <<s>>, List(l) has       *)
(* items = l.  A HashMap<String, Value> is a function whose domain is the  *)
(* set of keys present.  Strings are TLA+ strings and format! is string    *)
(* concatenation.                                                          *)
(***************************************************************************)
EXTENDS Integers, Sequences, FiniteSets, TLC

\* ------------------------------------------------------------------ bounds

\* Longest list a field of the record under mutation may grow to.
MaxLen == 3
\* Longest incoming list handed to append_value.
MaxIn == 2

\* Field names and field strings the operations are driven with.
Names == {"a", "b"}
Strs == {"1", "2"}

\* ------------------------------------------------------------------- Value

None == << >>
Some(v) == << v >>

Single(s) == [tag |-> "Single", items |-> << s >>]
List(l) == [tag |-> "List", items |-> l]

\* All sequences over S of length at most n.
SeqsUpTo(S, n) == UNION {[1..k -> S] : k \in 0..n}

\* The empty HashMap.
EmptyFields == [k \in {} |-> Single("")]

\* HashMap::insert(k, v): set or replace the entry of k.
MapInsert(m, k, v) == [x \in DOMAIN m \cup {k} |-> IF x = k THEN v ELSE m[x]]

\* HashMap::remove(k).
MapRemove(m, k) == [x \in DOMAIN m \ {k} |-> m[x]]

\* ------------------------------------------------------------- DataRecord

DataRecord_new == [fields |-> EmptyFields, record_key |-> None]

get(rec, key) == IF key \in DOMAIN rec.fields THEN Some(rec.fields[key]) ELSE None

keys(rec) == DOMAIN rec.fields

\* insert pushing at the front of the list instead of at its end.
insert_prepending(rec, name, value) ==
    IF name \in DOMAIN rec.fields
    THEN [rec EXCEPT !.fields[name] = List(<< value >> \o @.items)]
    ELSE [rec EXCEPT !.fields = MapInsert(@, name, Single(value))]

\* insert with the promotion dropped: an occupied Single is replaced.
insert_replacing(rec, name, value) ==
    IF name \in DOMAIN rec.fields /\ rec.fields[name].tag = "List"
    THEN [rec EXCEPT !.fields[name] = List(Append(@.items, value))]
    ELSE [rec EXCEPT !.fields = MapInsert(@, name, Single(value))]

insert(rec, name, value) ==
    IF name \in DOMAIN rec.fields
    THEN IF rec.fields[name].tag = "Single"
         THEN [rec EXCEPT !.fields[name] = List(<< @.items[1], value >>)]
         ELSE [rec EXCEPT !.fields[name] = List(Append(@.items, value))]
    ELSE [rec EXCEPT !.fields = MapInsert(@, name, Single(value))]

\* Debug rendering of a String: quoted (the strings used here need no escape).
DebugStr(s) == "\"" \o s \o "\""

RECURSIVE JoinDebug(_)
JoinDebug(l) ==
    IF Len(l) = 0 THEN ""
    ELSE IF Len(l) = 1 THEN DebugStr(l[1])
    ELSE DebugStr(l[1]) \o ", " \o JoinDebug(Tail(l))

\* Debug rendering of a Vec<String>.
DebugVec(l) == "[" \o JoinDebug(l) \o "]"

\* append_value aborting on every write to an occupied Single.
append_value_panics_on_single(rec, name, value) ==
    /\ name \in DOMAIN rec.fields
    /\ rec.fields[name].tag = "Single"

\* The combination on which append_value panics.
append_value_panics(rec, name, value) ==
    /\ name \in DOMAIN rec.fields
    /\ rec.fields[name].tag = "Single"
    /\ value.tag = "List"

\* The panic message of append_value.
append_value_message(rec, name, value) ==
    "can not append list " \o DebugVec(value.items)
        \o " to single " \o DebugStr(rec.fields[name].items[1])
        \o " in var " \o name

\* append_value promoting an occupied Single the way insert does.
append_value_promoting(rec, name, value) ==
    IF name \in DOMAIN rec.fields
    THEN [rec EXCEPT !.fields[name] = List(@.items \o value.items)]
    ELSE [rec EXCEPT !.fields = MapInsert(@, name, value)]

\* append_value replacing an occupied List by the incoming value.
append_value_replacing(rec, name, value) ==
    [rec EXCEPT !.fields = MapInsert(@, name, value)]

\* The record append_value leaves when it returns.
append_value(rec, name, value) ==
    IF name \in DOMAIN rec.fields
    THEN IF rec.fields[name].tag = "Single"
         THEN [rec EXCEPT !.fields[name] = Single(value.items[1])]
         ELSE [rec EXCEPT !.fields[name] = List(@.items \o value.items)]
    ELSE [rec EXCEPT !.fields = MapInsert(@, name, value)]

\* overwrite_from keeping the fields self already has.
overwrite_from_keeping(rec, from) ==
    [rec EXCEPT !.fields =
        [k \in DOMAIN rec.fields \cup DOMAIN from.fields |->
            IF k \in DOMAIN rec.fields THEN rec.fields[k] ELSE from.fields[k]]]

\* overwrite_from taking over the other record's record_key as well.
overwrite_from_taking_key(rec, from) ==
    [fields |-> [k \in DOMAIN rec.fields \cup DOMAIN from.fields |->
                    IF k \in DOMAIN from.fields THEN from.fields[k] ELSE rec.fields[k]],
     record_key |-> IF from.record_key # None THEN from.record_key ELSE rec.record_key]

overwrite_from(rec, from) ==
    [rec EXCEPT !.fields =
        [k \in DOMAIN rec.fields \cup DOMAIN from.fields |->
            IF k \in DOMAIN from.fields THEN from.fields[k] ELSE rec.fields[k]]]

\* remove clearing the whole map.
remove_clearing(rec, key) == [rec EXCEPT !.fields = EmptyFields]

remove(rec, key) == [rec EXCEPT !.fields = MapRemove(@, key)]

\* ----------------------------------------------------------- rendering

\* The derived Debug rendering of a Value: the variant's name around the
\* Debug rendering of its payload.
DebugValue(v) ==
    IF v.tag = "Single"
    THEN "Single(" \o DebugStr(v.items[1]) \o ")"
    ELSE "List(" \o DebugVec(v.items) \o ")"

\* impl fmt::Display for Value: a Single is its bare string, a List the
\* Debug rendering of its vector.
DisplayValue(v) ==
    IF v.tag = "Single" THEN v.items[1] ELSE DebugVec(v.items)

\* ----------------------------------------------------------- compare_sets

\* The orders in which a HashMap with key set S may be iterated.
Orders(S) ==
    {o \in [1..Cardinality(S) -> S] : \A i, j \in DOMAIN o : i # j => o[i] # o[j]}

\* One iteration order for each record of xs.
RECURSIVE OrderChoices(_)
OrderChoices(xs) ==
    IF Len(xs) = 0 THEN {<< >>}
    ELSE {<< o >> \o f : o \in Orders(DOMAIN xs[1].fields), f \in OrderChoices(Tail(xs))}

\* The entry compare_sets pushes for field k of irec.
FormatDiff(k, v) == k \o ":" \o DebugValue(v)

\* The push condition comparing payloads only, so that a Single equals a
\* List of the same one string.
IsDiff_ignoring_shape(irec, i, others, k) ==
    IF i <= Len(others)
    THEN LET v0 == get(others[i], k)
         IN  v0 = None \/ v0[1].items # irec.fields[k].items
    ELSE TRUE

\* The push condition also looking at the two records' record_key.
IsDiff_keyed(irec, i, others, k) ==
    IF i <= Len(others)
    THEN LET v0 == get(others[i], k)
         IN  \/ v0 = None
             \/ v0[1] # irec.fields[k]
             \/ others[i].record_key # irec.record_key
    ELSE TRUE

\* Whether field k of irec, the record at index i, is pushed: the other
\* sequence has no record at i, or that record lacks k or holds another value.
IsDiff(irec, i, others, k) ==
    IF i <= Len(others)
    THEN LET v0 == get(others[i], k)
         IN  v0 = None \/ v0[1] # irec.fields[k]
    ELSE TRUE

\* The inner loop: vo for the record irec at index i, its fields visited in
\* the order ord.
RECURSIVE DiffRow(_, _, _, _)
DiffRow(irec, i, others, ord) ==
    IF Len(ord) = 0 THEN << >>
    ELSE LET k == ord[1]
             rest == DiffRow(irec, i, others, Tail(ord))
         IN  IF IsDiff(irec, i, others, k)
             THEN << FormatDiff(k, irec.fields[k]) >> \o rest
             ELSE rest

\* compare_sets skipping the records that have no counterpart.
compare_sets_paired_only(result, other, ordr, ordo) ==
    << [i \in 1..Len(result) |->
           IF i <= Len(other) THEN DiffRow(result[i], i, other, ordr[i]) ELSE << >>],
       [i \in 1..Len(other) |->
           IF i <= Len(result) THEN DiffRow(other[i], i, result, ordo[i]) ELSE << >>] >>

\* compare_sets comparing every record against the first record of the
\* other sequence.
compare_sets_against_first(result, other, ordr, ordo) ==
    << [i \in 1..Len(result) |-> DiffRow(result[i], 1, other, ordr[i])],
       [i \in 1..Len(other) |-> DiffRow(other[i], 1, result, ordo[i])] >>

\* The inner loop pushing only the fields the other record lacks.
RECURSIVE DiffRowMissing(_, _, _, _)
DiffRowMissing(irec, i, others, ord) ==
    IF Len(ord) = 0 THEN << >>
    ELSE LET k == ord[1]
             rest == DiffRowMissing(irec, i, others, Tail(ord))
         IN  IF i > Len(others) \/ get(others[i], k) = None
             THEN << FormatDiff(k, irec.fields[k]) >> \o rest
             ELSE rest

\* compare_sets whose second loop reports only the fields result lacks.
compare_sets_second_missing_only(result, other, ordr, ordo) ==
    << [i \in 1..Len(result) |-> DiffRow(result[i], i, other, ordr[i])],
       [i \in 1..Len(other) |-> DiffRowMissing(other[i], i, result, ordo[i])] >>

\* compare_sets(result, other) with the iteration orders ordr and ordo of
\* the records' maps: (only_in_result, only_in_other).
compare_sets(result, other, ordr, ordo) ==
    << [i \in 1..Len(result) |-> DiffRow(result[i], i, other, ordr[i])],
       [i \in 1..Len(other) |-> DiffRow(other[i], i, result, ordo[i])] >>

\* ------------------------------------------------------------ wire form

\* A wire mapping is the sequence of its entries [key, val] as written; a
\* wire value is a string literal, a list literal of strings, or null.
WireString(s) == [kind |-> "string", items |-> << s >>]
WireSeq(l) == [kind |-> "seq", items |-> l]
WireNull == [kind |-> "null", items |-> << >>]

\* Serialize for the untagged Value: the payload alone.
ValueToWire(v) == IF v.tag = "Single" THEN WireString(v.items[1]) ELSE WireSeq(v.items)

\* Serialize for Option<String>.
OptionToWire(o) == IF o = None THEN WireNull ELSE WireString(o[1])

\* Serialize for DataRecord: the flattened fields in the map's iteration
\* order ord, then the entry of record_key, which no attribute skips when
\* writing.
to_wire(rec, ord) ==
    [i \in 1..Len(ord) |-> [key |-> ord[i], val |-> ValueToWire(rec.fields[ord[i]])]]
        \o << [key |-> "record_key", val |-> OptionToWire(rec.record_key)] >>

\* Deserialize for the untagged Value: the first variant the literal fits,
\* Single for a string and List for a list of strings; None when neither.
WireToValue(w) ==
    IF w.kind = "string" THEN Some(Single(w.items[1]))
    ELSE IF w.kind = "seq" THEN Some(List(w.items))
    ELSE None

\* The flattened map read from the entries: every key of the mapping is a
\* field (record_key is skipped when reading, so it names no attribute), a
\* later entry replaces an earlier one of the same key, and an entry whose
\* value is no Value fails the whole read (None).
RECURSIVE FieldsFromWire(_, _)
FieldsFromWire(entries, acc) ==
    IF Len(entries) = 0 THEN Some(acc)
    ELSE LET v == WireToValue(entries[1].val)
         IN  IF v = None THEN None
             ELSE FieldsFromWire(Tail(entries), MapInsert(acc, entries[1].key, v[1]))

\* Deserialize for DataRecord: [ok, rec]; record_key takes its default.
from_wire(entries) ==
    LET f == FieldsFromWire(entries, EmptyFields)
    IN  IF f = None
        THEN [ok |-> FALSE, rec |-> DataRecord_new]
        ELSE [ok |-> TRUE, rec |-> [fields |-> f[1], record_key |-> None]]

\* ------------------------------------------------------------------ state

VARIABLES
    self,       \* the record under mutation
    status,     \* "running", or "panicked" once append_value has aborted
    panic_msg,  \* the message of the panic, "" while running
    call,       \* the last call made on self: [op, name, value, from]
    before,     \* self as it was when that call was made
    hist,       \* per field: the values inserted since it was last absent,
                \* and whether only insert has touched it since
    result,     \* compare_sets: its first argument
    other,      \* compare_sets: its second argument
    diffs,      \* compare_sets: None, or Some of the pair it returned
    ser_rec,    \* wire form: None, or Some of the record that is written
    wire,       \* wire form: None, or Some of the mapping written or received
    de,         \* wire form: None, or Some of the result of reading wire
    wire_out,   \* wire form: None, or Some of the record read, written again
    cli,        \* main: the parsed command line [template_ok, input, lowercase, format]
    stream,     \* main: the items the engine yields for the input, in order
    pc,         \* main: where it is: "start", "parse", "loop", "render",
                \* "done" (returned Ok) or "failed" (returned the error)
    conv,       \* main: the local conv, None or Some("LowercaseKeys")
    parse_conv, \* main: the conversion handed to the engine's parse call
    pos,        \* main: how many items of the stream the loop has taken
    results,    \* main: the records collected
    output      \* main: None, or Some of what was printed

recVars == << self, status, panic_msg, call, before, hist >>
cmpVars == << result, other, diffs >>
serVars == << ser_rec, wire, de, wire_out >>
mainVars == << cli, stream, pc, conv, parse_conv, pos, results, output >>
vars == << recVars, cmpVars, serVars, mainVars >>

NoCall == [op |-> "none", name |-> "", value |-> None, from |-> None]

\* Values handed to append_value.
InValues == {Single(s) : s \in Strs} \cup {List(l) : l \in SeqsUpTo(Strs, MaxIn)}

\* Values of the fields of the records handed to overwrite_from.
FromValues == {Single("1"), List(<< "2", "1" >>)}

Keys == {"k1"}

FieldMaps(V) == UNION {[D -> V] : D \in SUBSET Names}

FromRecords ==
    {[fields |-> f, record_key |-> rk] :
        f \in FieldMaps(FromValues), rk \in {None, Some("k2")}}

FreshHist == [n \in Names |-> [clean |-> TRUE, vals |-> << >>]]

RecInit ==
    /\ self = DataRecord_new
    /\ status = "running"
    /\ panic_msg = ""
    /\ call = NoCall
    /\ before = DataRecord_new
    /\ hist = FreshHist

CmpIdle ==
    /\ result = << >>
    /\ other = << >>
    /\ diffs = None

SerIdle ==
    /\ ser_rec = None
    /\ wire = None
    /\ de = None
    /\ wire_out = None

MainIdle ==
    /\ cli = [template_ok |-> TRUE, input |-> None, lowercase |-> FALSE, format |-> "Yaml"]
    /\ stream = << >>
    /\ pc = "start"
    /\ conv = None
    /\ parse_conv = None
    /\ pos = 0
    /\ results = << >>
    /\ output = None

Init ==
    /\ RecInit
    /\ CmpIdle
    /\ SerIdle
    /\ MainIdle

FieldLen(rec, name) ==
    IF name \in DOMAIN rec.fields THEN Len(rec.fields[name].items) ELSE 0

Insert(name, value) ==
    /\ status = "running"
    /\ FieldLen(self, name) < MaxLen
    /\ self' = insert(self, name, value)
    /\ call' = [NoCall EXCEPT !.op = "insert", !.name = name, !.value = Some(Single(value))]
    /\ before' = self
    /\ hist' = [hist EXCEPT ![name].vals = IF hist[name].clean THEN Append(@, value) ELSE @]
    /\ UNCHANGED << status, panic_msg, cmpVars, serVars, mainVars >>

AppendValue(name, value) ==
    /\ status = "running"
    /\ FieldLen(self, name) + Len(value.items) <= MaxLen
    /\ call' = [NoCall EXCEPT !.op = "append_value", !.name = name, !.value = Some(value)]
    /\ before' = self
    /\ hist' = [hist EXCEPT ![name] = [clean |-> FALSE, vals |-> << >>]]
    /\ UNCHANGED << cmpVars, serVars, mainVars >>
    /\ IF append_value_panics(self, name, value)
       THEN /\ status' = "panicked"
            /\ panic_msg' = append_value_message(self, name, value)
            /\ UNCHANGED self
       ELSE /\ self' = append_value(self, name, value)
            /\ UNCHANGED << status, panic_msg >>

OverwriteFrom(from) ==
    /\ status = "running"
    /\ self' = overwrite_from(self, from)
    /\ call' = [NoCall EXCEPT !.op = "overwrite_from", !.from = Some(from)]
    /\ before' = self
    /\ hist' = [n \in Names |->
                   IF n \in DOMAIN from.fields
                   THEN [clean |-> FALSE, vals |-> << >>]
                   ELSE hist[n]]
    /\ UNCHANGED << status, panic_msg, cmpVars, serVars, mainVars >>

Remove(key) ==
    /\ status = "running"
    /\ self' = remove(self, key)
    /\ call' = [NoCall EXCEPT !.op = "remove", !.name = key]
    /\ before' = self
    /\ hist' = [hist EXCEPT ![key] = [clean |-> TRUE, vals |-> << >>]]
    /\ UNCHANGED << status, panic_msg, cmpVars, serVars, mainVars >>

\* The engine assigns the public attribute record_key directly.
SetRecordKey(k) ==
    /\ status = "running"
    /\ self' = [self EXCEPT !.record_key = Some(k)]
    /\ call' = [NoCall EXCEPT !.op = "set_record_key", !.name = k]
    /\ before' = self
    /\ UNCHANGED << status, panic_msg, hist, cmpVars, serVars, mainVars >>

\* get, keys and iter borrow the record immutably and return a view of it.
Get(key) ==
    /\ status = "running"
    /\ call' = [NoCall EXCEPT !.op = "get", !.name = key, !.value = get(self, key)]
    /\ before' = self
    /\ UNCHANGED << self, status, panic_msg, hist, cmpVars, serVars, mainVars >>

KeysCall ==
    /\ status = "running"
    /\ call' = [NoCall EXCEPT !.op = "keys"]
    /\ before' = self
    /\ UNCHANGED << self, status, panic_msg, hist, cmpVars, serVars, mainVars >>

Iter ==
    /\ status = "running"
    /\ call' = [NoCall EXCEPT !.op = "iter"]
    /\ before' = self
    /\ UNCHANGED << self, status, panic_msg, hist, cmpVars, serVars, mainVars >>

\* The records self is compared with.
ComparedWith == {r \in FromRecords : r.fields = [a |-> Single("1")]}

\* compare_sets(&[self], &[o]): both slices are borrowed immutably; what it
\* returns is not kept here.
CompareSelf(o) ==
    /\ status = "running"
    /\ call' = [NoCall EXCEPT !.op = "compare_sets", !.from = Some(o)]
    /\ before' = self
    /\ UNCHANGED << self, status, panic_msg, hist, cmpVars, serVars, mainVars >>

Next ==
    \/ \E name \in Names, value \in Strs : Insert(name, value)
    \/ \E name \in Names, value \in InValues : AppendValue(name, value)
    \/ \E from \in FromRecords : OverwriteFrom(from)
    \/ \E key \in Names : Remove(key)
    \/ \E k \in Keys : SetRecordKey(k)
    \/ \E key \in Names : Get(key)
    \/ KeysCall
    \/ Iter
    \/ \E o \in ComparedWith : CompareSelf(o)

Spec == Init /\ [][Next]_vars

\* ------------------------------------------- compare_sets on built records

\* Longest sequence of records handed to compare_sets.
MaxRecs == 2

S1 == Single("1")

\* The records compare_sets is driven with.
CmpRecords ==
    {[fields |-> f, record_key |-> None] :
        f \in {[a |-> S1],
               [a |-> Single("2")],
               [a |-> List(<< "1" >>)],
               [b |-> List(<< "2", "1" >>)],
               [a |-> S1, b |-> List(<< "1", "2" >>)]}}
    \cup {[fields |-> [a |-> S1], record_key |-> Some("k1")]}

CmpInit ==
    /\ RecInit
    /\ result \in SeqsUpTo(CmpRecords, MaxRecs)
    /\ other \in SeqsUpTo(CmpRecords, MaxRecs)
    /\ diffs = None
    /\ SerIdle
    /\ MainIdle

CompareSets ==
    /\ diffs = None
    /\ \E ordr \in OrderChoices(result), ordo \in OrderChoices(other) :
          diffs' = Some(compare_sets(result, other, ordr, ordo))
    /\ UNCHANGED << result, other, recVars, serVars, mainVars >>

CmpNext == CompareSets

SpecCompare == CmpInit /\ [][CmpNext]_vars

\* --------------------------------------------------- records on the wire

\* The records that are written.
SerRecords ==
    {[fields |-> f, record_key |-> rk] :
        f \in FieldMaps({Single("1"), List(<< >>), List(<< "1", "2" >>)}),
        rk \in {None, Some("k1")}}

\* The mappings that are received from outside.
ReceivedWires ==
    {<< >>,
     << [key |-> "a", val |-> WireString("1")] >>,
     << [key |-> "a", val |-> WireSeq(<< "1", "2" >>)] >>,
     << [key |-> "a", val |-> WireNull] >>,
     << [key |-> "a", val |-> WireString("1")], [key |-> "a", val |-> WireString("2")] >>,
     << [key |-> "a", val |-> WireString("1")], [key |-> "record_key", val |-> WireString("k1")] >>}

SerInit ==
    /\ RecInit
    /\ CmpIdle
    /\ MainIdle
    /\ de = None
    /\ wire_out = None
    /\ \/ ser_rec \in {Some(r) : r \in SerRecords} /\ wire = None
       \/ ser_rec = None /\ wire \in {Some(w) : w \in ReceivedWires}

\* serialize the record.
Serialize ==
    /\ ser_rec # None
    /\ wire = None
    /\ \E ord \in Orders(DOMAIN ser_rec[1].fields) :
          wire' = Some(to_wire(ser_rec[1], ord))
    /\ UNCHANGED << ser_rec, de, wire_out, recVars, cmpVars, mainVars >>

\* deserialize the mapping.
Deserialize ==
    /\ wire # None
    /\ de = None
    /\ de' = Some(from_wire(wire[1]))
    /\ UNCHANGED << ser_rec, wire, wire_out, recVars, cmpVars, mainVars >>

\* serialize the record that was read.
Reserialize ==
    /\ de # None
    /\ de[1].ok
    /\ wire_out = None
    /\ \E ord \in Orders(DOMAIN de[1].rec.fields) :
          wire_out' = Some(to_wire(de[1].rec, ord))
    /\ UNCHANGED << ser_rec, wire, de, recVars, cmpVars, mainVars >>

SerNext ==
    \/ Serialize
    \/ Deserialize
    \/ Reserialize

SpecSerde == SerInit /\ [][SerNext]_vars

\* ------------------------------------------------- the textfsm command

\* Longest stream of items the engine yields for one input.
MaxStream == 2

\* One item of the stream: Ok(record), or the failure.
OkItem(rec) == [ok |-> TRUE, rec |-> rec]
ErrItem == [ok |-> FALSE, rec |-> DataRecord_new]

\* The records the engine extracts, named as the template names its values.
EngineRecords ==
    {[fields |-> [A |-> S1], record_key |-> None],
     [fields |-> [A |-> Single("2"), b |-> List(<< "1", "2" >>)], record_key |-> Some("k1")]}

StreamItems == {OkItem(r) : r \in EngineRecords} \cup {ErrItem}

\* str::to_lowercase on the field names used here.
LowerName(n) == CASE n = "A" -> "a" [] n = "B" -> "b" [] OTHER -> n

\* DataRecordConversion::LowercaseKeys applied to a record: every field
\* name is converted to lowercase.
LowercaseKeys(rec) ==
    [rec EXCEPT !.fields =
        [k \in {LowerName(x) : x \in DOMAIN rec.fields} |->
            rec.fields[CHOOSE x \in DOMAIN rec.fields : LowerName(x) = k]]]

ApplyConversion(c, rec) == IF c = None THEN rec ELSE LowercaseKeys(rec)

\* fsm.parse_file(path, conv): the failure if the input yields one, else
\* every record of the input, converted as conv says.
parse_file(items, c) ==
    IF \E i \in DOMAIN items : ~items[i].ok
    THEN [ok |-> FALSE, recs |-> << >>]
    ELSE [ok |-> TRUE, recs |-> [i \in DOMAIN items |-> ApplyConversion(c, items[i].rec)]]

\* The records as printed: each one serialized, in order.
Rendered(recs, ords) == [i \in DOMAIN recs |-> to_wire(recs[i], ords[i])]

MainInit ==
    /\ RecInit
    /\ CmpIdle
    /\ SerIdle
    /\ cli \in [template_ok : BOOLEAN, input : {None, Some("input.txt")},
                lowercase : BOOLEAN, format : {"Json", "Yaml"}]
    /\ stream \in SeqsUpTo(StreamItems, MaxStream)
    /\ pc = "start"
    /\ conv = None
    /\ parse_conv = None
    /\ pos = 0
    /\ results = << >>
    /\ output = None

\* TextFSM::from_file(template)?, then the choice of conv.
LoadTemplate ==
    /\ pc = "start"
    /\ IF cli.template_ok
       THEN /\ pc' = "parse"
            /\ conv' = IF cli.lowercase THEN Some("LowercaseKeys") ELSE None
       ELSE /\ pc' = "failed"
            /\ UNCHANGED conv
    /\ UNCHANGED << cli, stream, parse_conv, pos, results, output,
                    recVars, cmpVars, serVars >>

\* An input file is given: fsm.parse_file(input_path, conv)?
ParseFile ==
    /\ pc = "parse"
    /\ cli.input # None
    /\ parse_conv' = conv
    /\ LET r == parse_file(stream, conv)
       IN  IF r.ok
           THEN results' = r.recs /\ pc' = "render"
           ELSE pc' = "failed" /\ UNCHANGED results
    /\ UNCHANGED << cli, stream, conv, pos, output, recVars, cmpVars, serVars >>

\* No input file: fsm.parse_reader(stdin.lock()), which takes no conversion.
ParseReader ==
    /\ pc = "parse"
    /\ cli.input = None
    /\ parse_conv' = None
    /\ results' = << >>
    /\ pc' = "loop"
    /\ UNCHANGED << cli, stream, conv, pos, output, recVars, cmpVars, serVars >>

\* The loop dropping a failed item and going on with the next.
NextRecord_skipping_failures ==
    /\ pc = "loop"
    /\ IF pos = Len(stream)
       THEN pc' = "render" /\ UNCHANGED << pos, results >>
       ELSE /\ pos' = pos + 1
            /\ results' = IF stream[pos + 1].ok
                          THEN Append(results, stream[pos + 1].rec)
                          ELSE results
            /\ UNCHANGED pc
    /\ UNCHANGED << cli, stream, conv, parse_conv, output, recVars, cmpVars, serVars >>

\* One turn of `for record in iter { results.push(record?); }`: the end of
\* the stream leaves the loop, a failure returns it from main, a record is
\* pushed.
NextRecord ==
    /\ pc = "loop"
    /\ IF pos = Len(stream)
       THEN pc' = "render" /\ UNCHANGED << pos, results >>
       ELSE /\ pos' = pos + 1
            /\ IF stream[pos + 1].ok
               THEN results' = Append(results, stream[pos + 1].rec) /\ UNCHANGED pc
               ELSE pc' = "failed" /\ UNCHANGED results
    /\ UNCHANGED << cli, stream, conv, parse_conv, output, recVars, cmpVars, serVars >>

\* match cli.format: print the records in the chosen encoding, return Ok(()).
Render ==
    /\ pc = "render"
    /\ \E ords \in OrderChoices(results) :
          output' = Some([format |-> cli.format, docs |-> Rendered(results, ords)])
    /\ pc' = "done"
    /\ UNCHANGED << cli, stream, conv, parse_conv, pos, results, recVars, cmpVars, serVars >>

MainNext ==
    \/ LoadTemplate
    \/ ParseFile
    \/ ParseReader
    \/ NextRecord
    \/ Render

SpecMain == MainInit /\ [][MainNext]_vars

\* ------------------------------------------------- claims on the record

HasSingle(rec, name) == name \in DOMAIN rec.fields /\ rec.fields[name].tag = "Single"
HasList(rec, name) == name \in DOMAIN rec.fields /\ rec.fields[name].tag = "List"

\* C1: after n >= 1 calls insert(name, v1) .. insert(name, vn) on a field
\* that was absent, with nothing else done to the field, get(name) is
\* Single(v1) when n = 1 and List([v1, .., vn]) in call order when n >= 2.
C1_InsertSequence ==
    \A n \in Names :
        (hist[n].clean /\ Len(hist[n].vals) >= 1) =>
            get(self, n) = Some(IF Len(hist[n].vals) = 1
                                THEN Single(hist[n].vals[1])
                                ELSE List(hist[n].vals))

C1_Witness ==
    /\ call.op = "insert"
    /\ hist["a"].clean
    /\ hist["a"].vals = << "2", "1", "1" >>
    /\ get(self, "a") = Some(List(<< "2", "1", "1" >>))

\* C2: append_value(name, Single(b)) on a field holding Single(a) leaves
\* Single(b); insert on the same state gives List([a, b]) instead.
C2_AppendSingleOverwrites ==
    (/\ call.op = "append_value"
     /\ HasSingle(before, call.name)
     /\ call.value[1].tag = "Single") =>
        /\ status = "running"
        /\ get(self, call.name) = call.value
        /\ get(insert(before, call.name, call.value[1].items[1]), call.name)
               = Some(List(before.fields[call.name].items \o call.value[1].items))

C2_Witness ==
    /\ call.op = "append_value"
    /\ call.name = "a"
    /\ get(before, "a") = Some(Single("1"))
    /\ call.value = Some(Single("2"))
    /\ get(self, "a") = Some(Single("2"))

\* The call that was last made is append_value of a List onto a Single.
ListOntoSingle ==
    /\ call.op = "append_value"
    /\ HasSingle(before, call.name)
    /\ call.value[1].tag = "List"

\* C3: append_value of a List onto a field holding a Single aborts with a
\* message naming the field, the single value and the incoming list, leaves
\* the record as it was, and no other call aborts.
C3_ListOntoSinglePanics ==
    /\ (status = "panicked") <=> ListOntoSingle
    /\ ListOntoSingle =>
          /\ panic_msg = "can not append list " \o DebugVec(call.value[1].items)
                            \o " to single "
                            \o DebugStr(before.fields[call.name].items[1])
                            \o " in var " \o call.name
          /\ self = before
    /\ ~ListOntoSingle => panic_msg = ""

C3_Witness ==
    /\ status = "panicked"
    /\ call.name = "b"
    /\ get(before, "b") = Some(Single("2"))
    /\ call.value = Some(List(<< "1", "2" >>))
    /\ panic_msg = "can not append list [\"1\", \"2\"] to single \"2\" in var b"

\* C4: append_value on a field holding List(xs) gives List(xs ++ [v]) for an
\* incoming Single(v) and List(xs ++ ys) for an incoming List(ys); on an
\* absent field it stores the incoming value as it is.
C4_AppendOntoListOrAbsent ==
    (call.op = "append_value") =>
        /\ HasList(before, call.name) =>
              /\ status = "running"
              /\ get(self, call.name) =
                    Some(List(before.fields[call.name].items \o call.value[1].items))
        /\ call.name \notin DOMAIN before.fields =>
              /\ status = "running"
              /\ get(self, call.name) = call.value

C4_Witness ==
    /\ call.op = "append_value"
    /\ get(before, "a") = Some(List(<< "1" >>))
    /\ call.name = "a"
    /\ call.value = Some(List(<< "2", "1" >>))
    /\ get(self, "a") = Some(List(<< "1", "2", "1" >>))

\* C5: after self.overwrite_from(other) every field of other has other's
\* value in self, every field other lacks is as it was in self, and the call
\* succeeds.
C5_OverwriteFrom ==
    (call.op = "overwrite_from") =>
        /\ status = "running"
        /\ \A k \in Names :
              IF k \in DOMAIN call.from[1].fields
              THEN get(self, k) = Some(call.from[1].fields[k])
              ELSE get(self, k) = get(before, k)

C5_Witness ==
    /\ call.op = "overwrite_from"
    /\ HasList(before, "a")
    /\ HasSingle(before, "b")
    /\ DOMAIN call.from[1].fields = {"b"}
    /\ call.from[1].fields["b"].tag = "List"
    /\ self.fields = [a |-> before.fields["a"], b |-> List(<< "2", "1" >>)]

\* The strings a field holds, in order: none when the field is absent.
Items(rec, name) == IF name \in DOMAIN rec.fields THEN rec.fields[name].items ELSE << >>

IsPrefix(xs, ys) == Len(xs) <= Len(ys) /\ SubSeq(ys, 1, Len(xs)) = xs

\* C13: in every reachable record state insert(name, v) succeeds and grows
\* the field by exactly one element: the strings held before, in their
\* order, followed by v.
C13_InsertGrowsByOne ==
    (call.op = "insert") =>
        /\ status = "running"
        /\ call.name \in DOMAIN self.fields
        /\ Items(self, call.name) = Items(before, call.name) \o call.value[1].items
        /\ IsPrefix(Items(before, call.name), Items(self, call.name))

C13_Witness ==
    /\ call.op = "insert"
    /\ call.name = "a"
    /\ ~hist["a"].clean
    /\ get(before, "a") = Some(List(<< "2", "1" >>))
    /\ get(self, "a") = Some(List(<< "2", "1", "2" >>))

\* C14: remove(name) deletes the field when present, is a no-op when it is
\* absent, leaves every other field unchanged, and succeeds; afterwards
\* get(name) is absent and insert(name, v) yields Single(v).
C14_Remove ==
    (call.op = "remove") =>
        /\ status = "running"
        /\ get(self, call.name) = None
        /\ \A k \in Names \ {call.name} : get(self, k) = get(before, k)
        /\ call.name \notin DOMAIN before.fields => self = before
        /\ \A v \in Strs : get(insert(self, call.name, v), call.name) = Some(Single(v))

C14_Witness ==
    /\ call.op = "remove"
    /\ call.name = "a"
    /\ HasList(before, "a")
    /\ HasSingle(before, "b")
    /\ self.fields = [b |-> before.fields["b"]]

\* C15: record_key changes only by direct assignment: a new record has none,
\* and insert, append_value, overwrite_from (whatever the other record's
\* record_key), remove, get, keys, iter and compare_sets leave it as it was.
C15_RecordKeyOnlyAssigned ==
    /\ call.op = "none" => self.record_key = None
    /\ call.op = "set_record_key" => self.record_key = Some(call.name)
    /\ call.op \notin {"none", "set_record_key"} => self.record_key = before.record_key

C15_Witness ==
    /\ call.op = "overwrite_from"
    /\ call.from[1].record_key = Some("k2")
    /\ before.record_key = Some("k1")
    /\ self.record_key = Some("k1")
    /\ self.fields # before.fields

\* C17: under insert and append_value calls that return, a field holding a
\* List goes on holding a List that keeps its elements in order, and only
\* insert on that field turns a Single into a List.
C17_ShapeMovesForward ==
    (call.op \in {"insert", "append_value"} /\ status = "running") =>
        \A n \in Names :
            /\ HasList(before, n) =>
                  /\ HasList(self, n)
                  /\ IsPrefix(before.fields[n].items, self.fields[n].items)
            /\ (HasSingle(before, n) /\ HasList(self, n)) =>
                  (call.op = "insert" /\ call.name = n)

C17_Witness ==
    /\ call.op = "insert"
    /\ call.name = "a"
    /\ get(before, "a") = Some(Single("1"))
    /\ get(self, "a") = Some(List(<< "1", "2" >>))
    /\ HasList(before, "b")
    /\ before.fields["b"] = self.fields["b"]

\* ------------------------------------------------ claims on compare_sets

only_in_result == diffs[1][1]
only_in_other == diffs[1][2]

\* The elements of a sequence.
Range(q) == {q[i] : i \in DOMAIN q}

\* C6: compare_sets(R, R') with R' an identical copy of R returns two
\* outputs, one entry per record, whose every entry is empty.
C6_SelfCompareEmpty ==
    (diffs # None /\ other = result) =>
        /\ Len(only_in_result) = Len(result)
        /\ Len(only_in_other) = Len(result)
        /\ \A i \in 1..Len(result) :
              only_in_result[i] = << >> /\ only_in_other[i] = << >>

C6_Witness ==
    /\ diffs # None
    /\ other = result
    /\ Len(result) = 2
    /\ result[1] # result[2]
    /\ DOMAIN result[2].fields = {"a", "b"}
    /\ only_in_result = << << >>, << >> >>

\* C7: every diff entry is "name:value" with the value in its Display
\* rendering (a Single as its bare string, a List as the bracketed listing);
\* compare_sets([{a:"1"}], [{a:"2"}]) returns [["a:1"]] and [["a:2"]].
C7_DisplayRendering ==
    (diffs # None) =>
        /\ \A i \in 1..Len(result) :
              Range(only_in_result[i]) \subseteq
                  {k \o ":" \o DisplayValue(result[i].fields[k]) :
                      k \in DOMAIN result[i].fields}
        /\ \A i \in 1..Len(other) :
              Range(only_in_other[i]) \subseteq
                  {k \o ":" \o DisplayValue(other[i].fields[k]) :
                      k \in DOMAIN other[i].fields}
        /\ (/\ result = << [fields |-> [a |-> Single("1")], record_key |-> None] >>
            /\ other = << [fields |-> [a |-> Single("2")], record_key |-> None] >>) =>
              /\ only_in_result = << << "a:1" >> >>
              /\ only_in_other = << << "a:2" >> >>

\* Row row lists every field of rec, each once.
ListsEveryField(row, rec) ==
    /\ Len(row) = Cardinality(DOMAIN rec.fields)
    /\ Range(row) = {FormatDiff(k, rec.fields[k]) : k \in DOMAIN rec.fields}

\* C10: compare_sets returns one entry per record of result and one per
\* record of other, in input order, and the entry of a record that has no
\* counterpart in the other sequence lists every field of that record.
C10_OneEntryPerRecord ==
    (diffs # None) =>
        /\ Len(only_in_result) = Len(result)
        /\ Len(only_in_other) = Len(other)
        /\ \A i \in 1..Len(result) :
              /\ Range(only_in_result[i]) \subseteq
                     {FormatDiff(k, result[i].fields[k]) : k \in DOMAIN result[i].fields}
              /\ i > Len(other) => ListsEveryField(only_in_result[i], result[i])
        /\ \A i \in 1..Len(other) :
              /\ Range(only_in_other[i]) \subseteq
                     {FormatDiff(k, other[i].fields[k]) : k \in DOMAIN other[i].fields}
              /\ i > Len(result) => ListsEveryField(only_in_other[i], other[i])

C10_Witness ==
    /\ diffs # None
    /\ other = << >>
    /\ Len(result) = 1
    /\ DOMAIN result[1].fields = {"a", "b"}
    /\ Len(only_in_result[1]) = 2
    /\ only_in_other = << >>

\* ------------------------------------------------ claims on the wire form

WireKeys(entries) == {entries[i].key : i \in DOMAIN entries}

\* C8: record_key is never in the serialized form: a record that is written
\* has no record_key entry whether or not record_key is set, reading never
\* sets record_key, and a record read and written again has no record_key
\* entry.
C8_RecordKeyNeverOnWire ==
    /\ (ser_rec # None /\ wire # None) => "record_key" \notin WireKeys(wire[1])
    /\ (de # None /\ de[1].ok) => de[1].rec.record_key = None
    /\ (ser_rec # None /\ wire_out # None) => "record_key" \notin WireKeys(wire_out[1])

\* C9: writing a record and reading the result succeeds and gives a record
\* with equal fields; the mapping written has exactly the record's field
\* names as keys, a Single as a bare string and a List as an ordered list.
C9_RoundTrip ==
    /\ (ser_rec # None /\ wire # None) =>
          /\ WireKeys(wire[1]) = DOMAIN ser_rec[1].fields
          /\ \A i \in DOMAIN wire[1] :
                wire[1][i].key \in DOMAIN ser_rec[1].fields =>
                    wire[1][i].val = ValueToWire(ser_rec[1].fields[wire[1][i].key])
    /\ (ser_rec # None /\ de # None) =>
          /\ de[1].ok
          /\ de[1].rec.fields = ser_rec[1].fields

\* Field k of rec differs from its counterpart in o: o lacks k, or holds a
\* structurally different value.
FieldDiffers(rec, o, k) ==
    k \notin DOMAIN o.fields \/ o.fields[k] # rec.fields[k]

\* Row row holds an entry for exactly the fields of rec that differ from o,
\* each once.
ListsDifferingFields(row, rec, o) ==
    /\ \A k \in DOMAIN rec.fields :
          (FormatDiff(k, rec.fields[k]) \in Range(row)) <=> FieldDiffers(rec, o, k)
    /\ Len(row) = Cardinality({k \in DOMAIN rec.fields : FieldDiffers(rec, o, k)})

\* C11: at every index i within both sequences, only_in_result[i] has an
\* entry for field k of result[i] exactly when other[i] lacks k or holds a
\* structurally different value, and only_in_other[i] follows the same rule
\* with the sequences swapped; records are paired by position.
C11_PositionalFieldDiff ==
    (diffs # None) =>
        \A i \in 1..Len(result) :
            i <= Len(other) =>
                /\ ListsDifferingFields(only_in_result[i], result[i], other[i])
                /\ ListsDifferingFields(only_in_other[i], other[i], result[i])

C11_Witness ==
    /\ diffs # None
    /\ result = << [fields |-> [a |-> S1, b |-> List(<< "1", "2" >>)], record_key |-> None],
                   [fields |-> [a |-> S1], record_key |-> None] >>
    /\ other = << [fields |-> [b |-> List(<< "2", "1" >>)], record_key |-> None],
                  [fields |-> [a |-> List(<< "1" >>)], record_key |-> None] >>
    /\ only_in_result = << << "a:Single(\"1\")", "b:List([\"1\", \"2\"])" >>,
                           << "a:Single(\"1\")" >> >>
    /\ only_in_other = << << "b:List([\"2\", \"1\"])" >>, << "a:List([\"1\"])" >> >>

\* ------------------------------------------------ claims on the command

StdinPath == cli.input = None

\* C12: on the stdin path, when the k-th item of the stream is a failure,
\* consumption stops at that item, main returns the failure and nothing is
\* printed from the k-1 records collected; a run that prints, prints every
\* record of the stream.
C12_StreamFailurePropagates ==
    /\ output # None => pc = "done"
    /\ pc = "failed" => output = None
    /\ (StdinPath /\ pc # "start" /\ pc # "parse") =>
          /\ \A j \in 1..pos : j < pos => stream[j].ok
          /\ (pos >= 1 /\ ~stream[pos].ok) => pc = "failed"
          /\ pc \in {"render", "done"} =>
                /\ pos = Len(stream)
                /\ results = [i \in DOMAIN stream |-> stream[i].rec]
          /\ pc = "done" =>
                /\ Len(output[1].docs) = Len(stream)
                /\ \A i \in DOMAIN stream :
                      \E ord \in Orders(DOMAIN stream[i].rec.fields) :
                          output[1].docs[i] = to_wire(stream[i].rec, ord)

C12_Witness ==
    /\ StdinPath
    /\ pc = "failed"
    /\ Len(stream) = 2
    /\ stream[1].ok
    /\ ~stream[2].ok
    /\ pos = 2
    /\ Len(results) = 1
    /\ output = None

\* C16: with the lowercase flag the LowercaseKeys conversion is applied to
\* the parse for every input source, an input file as well as standard
\* input: every field name of the records collected is lowercase.
C16_LowercaseOnEveryPath ==
    cli.lowercase =>
        \A i \in DOMAIN results :
            \A k \in DOMAIN results[i].fields : LowerName(k) = k

\* Each entry of an output as the set of its strings.
AsSets(rows) == [i \in DOMAIN rows |-> Range(rows[i])]

\* C18: compare_sets is symmetric under swapping its arguments: if
\* compare_sets(A, B) = (x, y) then compare_sets(B, A) = (y, x), each entry
\* taken as a set of strings.
C18_SwapSymmetric ==
    (diffs # None) =>
        \A ordo \in OrderChoices(other), ordr \in OrderChoices(result) :
            LET swapped == compare_sets(other, result, ordo, ordr)
            IN  /\ AsSets(swapped[1]) = AsSets(only_in_other)
                /\ AsSets(swapped[2]) = AsSets(only_in_result)

C18_Witness ==
    /\ diffs # None
    /\ Len(result) = 2
    /\ Len(other) = 1
    /\ DOMAIN result[1].fields = {"a", "b"}
    /\ DOMAIN other[1].fields = {"b"}
    /\ Len(only_in_result[1]) = 2
    /\ Len(only_in_other[1]) = 1
    /\ only_in_result[2] # << >>

\* A sequence of records with every record_key cleared.
WithoutKeys(xs) == [i \in DOMAIN xs |-> [xs[i] EXCEPT !.record_key = None]]

AllEmpty(rows) == \A i \in DOMAIN rows : rows[i] = << >>

\* C19: for two sequences of equal length every entry of both outputs is
\* empty exactly when result[i] and other[i] have equal field mappings at
\* every index; what compare_sets returns does not depend on any record_key.
C19_EmptyIffEqualFields ==
    (diffs # None) =>
        /\ Len(result) = Len(other) =>
              ((AllEmpty(only_in_result) /\ AllEmpty(only_in_other))
                  <=> \A i \in DOMAIN result : result[i].fields = other[i].fields)
        /\ \A ordr \in OrderChoices(result), ordo \in OrderChoices(other) :
              LET bare == compare_sets(WithoutKeys(result), WithoutKeys(other), ordr, ordo)
              IN  /\ AsSets(bare[1]) = AsSets(only_in_result)
                  /\ AsSets(bare[2]) = AsSets(only_in_other)

C19_Witness ==
    /\ diffs # None
    /\ Len(result) = 2
    /\ Len(other) = 2
    /\ result[1].record_key # other[1].record_key
    /\ result[1].fields = other[1].fields
    /\ result[2] = other[2]
    /\ DOMAIN result[2].fields = {"a", "b"}
    /\ AllEmpty(only_in_result)
    /\ AllEmpty(only_in_other)

=============================================================================
